---------------------------- MODULE Spec2Model ----------------------------
(***************************************************************************)
(* Match lifecycle and live-event engine of sportscore_refactor.           *)
(*                                                                         *)
(* The store is MySQL/InnoDB reached through mysql2/promise                *)
(* (src/src/socket/index.js:158-236).  Two ways of reaching it matter:     *)
(*   - database.query(sql) runs on a pooled autocommit connection and      *)
(*     resolves to the rows: it sees committed data only;                  *)
(*   - database.transaction(cb) hands cb the raw pooled connection, whose  *)
(*     query() resolves to the pair [rows, fields]; its writes stay        *)
(*     private, holding the row lock, until commit or rollback.            *)
(* MatchService.getMatchById always uses database.query, also when it is   *)
(* called from inside a transaction callback.                              *)
(***************************************************************************)
EXTENDS Integers, Sequences, FiniteSets, TLC

(* ----------------------------- bounds --------------------------------- *)
\* The model follows two requests (Procs) against one stored match, from any
\* lifecycle status that match can be in.
\* largest score an administrative override may write
MaxScoreInput == 1
\* the clock advances in steps of TickMs, MaxTicks times, while connections
\* subscribe, and in steps of LongTickMs, MaxLongTicks times, while handshakes
\* are admitted
TickMs == 1000
MaxTicks == 2
LongTickMs == 40000
MaxLongTicks == 2
\* notifications SocketService is asked to publish
MaxPublished == 2

(* ------------------------- program constants -------------------------- *)
SCHEDULED == "belum_main"
LIVE      == "sedang_main"
FINISHED  == "selesai"
CANCELLED == "cancelled"
PAUSED    == "paused"
Statuses  == {SCHEDULED, LIVE, PAUSED, FINISHED, CANCELLED}

GOL        == "GOL"
BUNUH_DIRI == "BUNUH_DIRI"
KUNING     == "KUNING"
MERAH      == "MERAH"
Jenis      == {GOL, BUNUH_DIRI, KUNING, MERAH}

\* generateGroupMatches: jam_awal = '13:00:00' and jeda_menit = 90 unless the
\* options give them (times are minutes of the match day)
DefaultJamAwal == 780
DefaultJedaMenit == 90
\* a calendar day, in minutes
MinutesPerDay == 1440

\* SocketService: the admission window and quota, and the join cooldown
WindowMs == 60000
Quota == 50
cooldownMs == 2000

(* --------------------------- small universe --------------------------- *)
\* the time zones the server may run in: UTC and WIB (UTC+7)
Zones == {0, 420}
\* connections, and the network origins handshakes come from
Sockets == {"s1", "s2"}
Origins == {"o1"}
\* Date.now() when the server starts, later than any window
BootTime == 100000
Procs    == {"r1", "r2"}
MatchIds == {1, 2}
Teams    == {"T1", "T2", "T3"}
Players  == {"P1", "P2"}

\* rows of pemain_event in the one category of the model: P1 plays for T1
\* and has a second registration under T3, P2 is registered under T3 only
pemain_event == {[id_pemain |-> "P1", id_team |-> "T1"],
                 [id_pemain |-> "P1", id_team |-> "T3"],
                 [id_pemain |-> "P2", id_team |-> "T3"]}

(* JavaScript values: null/undefined, an object (a row), an array *)
Null == [tag |-> "null"]
JsArray(items) == [tag |-> "array", items |-> items]
Truthy(v) == v.tag /= "null"

\* the stored match is scheduled at 13:00 (minutes of the match day)
MatchRow(t1, t2, st, s1, s2) ==
  [tag |-> "row", team_1 |-> t1, team_2 |-> t2, status |-> st,
   skor_1 |-> s1, skor_2 |-> s2, waktu |-> DefaultJamAwal]

NoCmd == [op |-> "none"]
NoPend ==
  [row |-> Null, event |-> Null, gol |-> 0, fixtures |-> <<>>, deleted |-> FALSE]

\* a JavaScript number
Millis(n) == [tag |-> "number", value |-> n]
Minutes(n) == [tag |-> "number", value |-> n]

\* `match_${matchId}` and `category_${categoryId}`
matchRoom(matchId) == <<"match_", matchId>>
categoryRoom(categoryId) == <<"category_", categoryId>>
\* socket.join('general')
generalRoom == <<"general">>
\* the topics a connection asks for
Topics == {matchRoom(1), categoryRoom("K1")}
\* the instants at which a handshake can arrive
HandshakeTimes == {BootTime + k * LongTickMs : k \in 0..MaxLongTicks}

VARIABLES
  matches,       \* table matches, committed: id -> row or Null
  match_events,  \* table match_events, committed: the ledger, in insert order
  jumlah_gol,    \* pemain_event.jumlah_gol, committed: registration row -> goals
  rowLock,       \* InnoDB row lock on matches.id: holder or "free"
  overridden,    \* history: the match's score was written as an absolute value
  pc,            \* request -> position in its handler
  cmd,           \* request -> command and arguments
  match,         \* request -> the row getMatchById returned (const match / currentMatch)
  pend,          \* request -> uncommitted writes of its transaction
  err,           \* request -> the failure the request is answered with
  emitted,       \* request -> notifications it has published
  detail,        \* request -> matchDetail read for the notification
  created,       \* table matches, committed: the rows schedule generation inserted
  brackets,      \* table brackets, committed, in insert order
  committed,     \* history: request -> its transaction has committed
  teams,         \* request -> const teams of generateGroupMatches
  currentTime,   \* request -> let currentTime, in minutes of the match day
  receiver,      \* the build keeps `this` in a call through an imported binding
  zone,          \* the server's time zone, in minutes east of UTC
  now,           \* Date.now(), in milliseconds
  connections,   \* SocketService.connections: origin -> {count, lastReset}
  admitted,      \* history: origin -> time -> handshakes admitted at that time
  sockets,       \* connection -> "new", "connected" or "disconnected"
  rooms,         \* connection -> the rooms it is in (socket.io adapter)
  joinCooldowns, \* connection -> const joinCooldowns: room -> last join
  delivered,     \* connection -> the notifications it has received, in order
  published,     \* history: the notifications published, in order
  refused        \* history: connection -> rooms of the joins the cooldown stopped

vars == <<matches, match_events, jumlah_gol, rowLock, overridden,
          pc, cmd, match, pend, err, emitted, detail, committed,
          created, brackets, teams, currentTime,
          receiver, zone, now, connections, admitted, sockets, rooms, joinCooldowns,
          delivered, published, refused>>
db == <<matches, match_events, jumlah_gol>>
\* what the schedule generator reads and writes
gen == <<created, brackets, teams, currentTime>>
\* what the HTTP commands read and write
http == <<matches, match_events, jumlah_gol, rowLock, overridden,
          pc, cmd, match, pend, err, emitted, detail, committed,
          created, brackets, teams, currentTime>>
\* what the process is built and run with
env == <<receiver, zone>>
\* what SocketService reads and writes
socketService == <<now, connections, admitted, sockets, rooms, joinCooldowns,
                   delivered, published, refused>>

\* the slot after the 13:00 one
NextSlot == DefaultJamAwal + DefaultJedaMenit
\* a second stored match: T1 against T3 in the next slot, interrupted, with a
\* yellow card of P1 in its ledger
SecondMatch == [MatchRow("T1", "T3", PAUSED, 0, 0) EXCEPT !.waktu = NextSlot]
SecondMatchEvent ==
  [tag |-> "event", id_match |-> 2, id_team |-> "T1", id_pemain |-> "P1",
   jenis |-> KUNING]
\* a row of table brackets as lines 735-745 write it: semifinal SF1, linked to
\* match 1, with the status of that match
LinkedBracket(st) ==
  [id_kategori |-> "K2", round |-> "semifinal", kode |-> "SF1",
   team_1 |-> "T1", team_2 |-> "T2", match_id |-> 1, status |-> st]

\* the store with one match, T1 against T2, in any lifecycle state
OneMatchStore ==
  /\ \E st \in Statuses :
       matches = [m \in MatchIds |->
                    IF m = 1 THEN MatchRow("T1", "T2", st, 0, 0) ELSE Null]
  /\ match_events = <<>>
  /\ brackets = <<>>

\* the store of a tournament under way: both matches, the card, and the
\* bracket entry of match 1
TournamentStore ==
  \E st \in Statuses :
    /\ matches = [m \in MatchIds |->
                    IF m = 1 THEN MatchRow("T1", "T2", st, 0, 0) ELSE SecondMatch]
    /\ match_events = <<SecondMatchEvent>>
    /\ brackets = <<LinkedBracket(st)>>

\* the server after construction, no request in progress
Idle ==
  /\ jumlah_gol = [r \in pemain_event |-> 0]
  /\ rowLock = [m \in MatchIds |-> "free"]
  /\ overridden = [m \in MatchIds |-> FALSE]
  /\ pc = [p \in Procs |-> "idle"]
  /\ cmd = [p \in Procs |-> NoCmd]
  /\ match = [p \in Procs |-> Null]
  /\ pend = [p \in Procs |-> NoPend]
  /\ err = [p \in Procs |-> [kind |-> "none", at |-> "-"]]
  /\ emitted = [p \in Procs |-> <<>>]
  /\ detail = [p \in Procs |-> Null]
  /\ committed = [p \in Procs |-> FALSE]
  /\ created = <<>>
  /\ teams = [p \in Procs |-> Null]
  /\ currentTime = [p \in Procs |-> 0]
  /\ receiver \in BOOLEAN
  /\ zone \in Zones
  /\ now = BootTime
  /\ connections = [o \in Origins |-> Null]
  /\ admitted = [o \in Origins |-> [t \in HandshakeTimes |-> 0]]
  /\ sockets = [s \in Sockets |-> "new"]
  /\ rooms = [s \in Sockets |-> {}]
  /\ joinCooldowns = [s \in Sockets |-> [r \in Topics |-> Null]]
  /\ delivered = [s \in Sockets |-> <<>>]
  /\ published = <<>>
  /\ refused = [s \in Sockets |-> {}]

Init == OneMatchStore /\ Idle

(* ------------------------------ Database ------------------------------ *)
\* const [match] = await database.query(query, [id]); return match || null
getMatchById(id) == matches[id]

\* connection.query(sql) on the transaction's connection: [rows, fields]
ConnectionQuery(rows) == <<JsArray(rows), JsArray({})>>


\* the failure a request is answered with: its kind, and where it was raised
Failure(kind, at) == [kind |-> kind, at |-> at]
NoFailure == Failure("none", "-")

\* mutant of Finish: the handler goes on to publish after a failure
publishesAnyway(p, e) ==
  /\ pc' = [pc EXCEPT ![p] = IF e = "none" THEN "done" ELSE "emit"]
  /\ err' = [err EXCEPT ![p] = IF e = "none" THEN NoFailure ELSE Failure(e, pc[p])]

\* asyncHandler: the handler returns, or its rejection goes to next(error)
Finish(p, e) ==
  /\ pc' = [pc EXCEPT ![p] = "done"]
  /\ err' = [err EXCEPT ![p] = IF e = "none" THEN NoFailure ELSE Failure(e, pc[p])]

(* ------------------- MatchService.addMatchEvent ----------------------- *)
\* SELECT pe.id_team FROM pemain_event pe WHERE pe.id_pemain = ?
\*   AND pe.id_kategori = ? AND pe.id_team IN (?, ?)
playerQuery(id_pemain, m) ==
  {r \in pemain_event : r.id_pemain = id_pemain /\ r.id_team \in {m.team_1, m.team_2}}

\* const [player] = await connection.query(playerQuery, ...): the first element
\* of [rows, fields], that is the array of rows, empty or not
playerOf(id_pemain, m) == ConnectionQuery(playerQuery(id_pemain, m))[1]

\* mutant of notInProgress: a paused match passes for one in progress
notInProgressNorPaused(m) == m.status \notin {LIVE, PAUSED}

\* line 389: if (match.status !== 'sedang_main') throw 'Match is not in progress'
notInProgress(m) == m.status /= LIVE

\* mutant of scoringTeamOf: an own goal counts for the team that scored it
scoringTeamIsEventTeam(eventData, m) == eventData.id_team

\* the team whose score the event raises (lines 432-438)
scoringTeamOf(eventData, m) ==
  IF eventData.jenis = GOL THEN eventData.id_team
  ELSE IF eventData.id_team = m.team_1 THEN m.team_2 ELSE m.team_1

\* mutant of updateScoreFromEvent: read-modify-write from the row read earlier
updateScoreFromSnapshot(row, scoringTeam, m) ==
  IF ~Truthy(row) THEN row
  ELSE IF scoringTeam = m.team_1
       THEN [row EXCEPT !.skor_1 = m.skor_1 + 1]
       ELSE [row EXCEPT !.skor_2 = m.skor_2 + 1]

\* UPDATE matches SET <scoreField> = <scoreField> + 1 WHERE id = ?
\* row is the stored row the UPDATE finds, m the row read at validation
updateScoreFromEvent(row, scoringTeam, m) ==
  IF ~Truthy(row) THEN row
  ELSE IF scoringTeam = m.team_1
       THEN [row EXCEPT !.skor_1 = @ + 1]
       ELSE [row EXCEPT !.skor_2 = @ + 1]

\* UPDATE pemain_event SET jumlah_gol = jumlah_gol + 1 WHERE id_pemain = ? AND
\* id_kategori = ?, only for GOL
updatePlayerStats(eventType) == IF eventType = GOL THEN 1 ELSE 0

\* mutant of isGoal: every kind of event goes on to the score
everyKindScores(jenis) == TRUE
\* lines 431-440: jenis === 'GOL', else jenis === 'BUNUH_DIRI'
isGoal(jenis) == jenis \in {GOL, BUNUH_DIRI}

StartAddMatchEvent(p) ==
  /\ pc[p] = "idle"
  /\ \E id \in MatchIds, t \in Teams, pl \in Players, j \in Jenis :
       cmd' = [cmd EXCEPT ![p] = [op |-> "addMatchEvent", id |-> id,
                                  id_team |-> t, id_pemain |-> pl, jenis |-> j]]
  /\ pc' = [pc EXCEPT ![p] = "validate"]
  /\ UNCHANGED <<db, rowLock, overridden, match, pend, err, emitted, detail,
               gen,
               env, socketService, committed>>

\* lines 383-411: the row comes from getMatchById, not from the transaction
AddValidate(p) ==
  /\ pc[p] = "validate" /\ cmd[p].op = "addMatchEvent"
  /\ LET m == getMatchById(cmd[p].id) IN
       IF ~Truthy(m) THEN Finish(p, "NotFound") /\ UNCHANGED match
       ELSE IF notInProgress(m)
         THEN Finish(p, "MatchNotInProgress") /\ UNCHANGED match
       ELSE IF ~Truthy(playerOf(cmd[p].id_pemain, m))
         THEN Finish(p, "PlayerNotEligible") /\ UNCHANGED match
       ELSE /\ match' = [match EXCEPT ![p] = m]
            /\ pc' = [pc EXCEPT ![p] = "insert"]
            /\ UNCHANGED err
  /\ UNCHANGED <<db, rowLock, overridden, cmd, pend, emitted, detail, gen,
               env, socketService, committed>>

\* lines 413-429: INSERT INTO match_events
AddInsert(p) ==
  /\ pc[p] = "insert"
  /\ pend' = [pend EXCEPT ![p].event =
                [tag |-> "event", id_match |-> cmd[p].id, id_team |-> cmd[p].id_team,
                 id_pemain |-> cmd[p].id_pemain, jenis |-> cmd[p].jenis]]
  /\ pc' = [pc EXCEPT ![p] =
              IF isGoal(cmd[p].jenis) THEN "score" ELSE "commit"]
  /\ UNCHANGED <<db, rowLock, overridden, cmd, match, err, emitted, detail,
               gen,
               env, socketService, committed>>

\* lines 431-438: the UPDATE waits for the row lock and holds it to the end
AddScore(p) ==
  /\ pc[p] = "score"
  /\ rowLock[cmd[p].id] = "free"
  /\ rowLock' = [rowLock EXCEPT ![cmd[p].id] = p]
  /\ pend' = [pend EXCEPT ![p].row =
                updateScoreFromEvent(matches[cmd[p].id],
                                     scoringTeamOf(cmd[p], match[p]), match[p])]
  /\ pc' = [pc EXCEPT ![p] = "stats"]
  /\ UNCHANGED <<db, overridden, cmd, match, err, emitted, detail, gen,
               env, socketService, committed>>

\* lines 440-443: updatePlayerStats is called for a goal and for an own goal
AddStats(p) ==
  /\ pc[p] = "stats"
  /\ pend' = [pend EXCEPT ![p].gol = updatePlayerStats(cmd[p].jenis)]
  /\ pc' = [pc EXCEPT ![p] = "commit"]
  /\ UNCHANGED <<db, rowLock, overridden, cmd, match, err, emitted, detail,
               gen,
               env, socketService, committed>>

(* ------------------------ Database.transaction ------------------------ *)
IsOverride(c) ==
  \/ c.op = "updateScore"
  \/ c.op = "updateMatch" /\ c.data.skor /= Null

GenerateOps == {"generateGroupMatches", "generateBracketMatches"}

AfterCommit(c) ==
  CASE c.op = "addMatchEvent" -> "detail"
    [] c.op \in GenerateOps  -> "done"
    [] c.op = "deleteMatch"   -> "respond"
    [] OTHER -> "emit"

\* what commit makes of the three tables
committedMatches(p) ==
  IF pend[p].deleted THEN [matches EXCEPT ![cmd[p].id] = Null]
  ELSE IF Truthy(pend[p].row) THEN [matches EXCEPT ![cmd[p].id] = pend[p].row]
  ELSE matches
EventsOfOthers(id) == SelectSeq(match_events, LAMBDA e : e.id_match /= id)
committedEvents(p) ==
  IF pend[p].deleted THEN EventsOfOthers(cmd[p].id)
  ELSE IF Truthy(pend[p].event) THEN Append(match_events, pend[p].event)
  ELSE match_events
committedFixtures(p) == created \o pend[p].fixtures
committedGoals(p) ==
  [r \in pemain_event |->
     IF pend[p].gol > 0 /\ r.id_pemain = cmd[p].id_pemain
     THEN jumlah_gol[r] + pend[p].gol ELSE jumlah_gol[r]]

Release(p) == [m \in MatchIds |-> IF rowLock[m] = p THEN "free" ELSE rowLock[m]]

\* await connection.commit()
Commit(p) ==
  /\ pc[p] = "commit"
  /\ matches' = committedMatches(p)
  /\ match_events' = committedEvents(p)
  /\ jumlah_gol' = committedGoals(p)
  /\ created' = committedFixtures(p)
  /\ overridden' = IF IsOverride(cmd[p]) /\ Truthy(pend[p].row)
                   THEN [overridden EXCEPT ![cmd[p].id] = TRUE]
                   ELSE overridden
  /\ rowLock' = Release(p)
  /\ pend' = [pend EXCEPT ![p] = NoPend]
  /\ committed' = [committed EXCEPT ![p] = TRUE]
  /\ pc' = [pc EXCEPT ![p] = AfterCommit(cmd[p])]
  /\ UNCHANGED <<cmd, match, err, emitted, detail, brackets, teams, currentTime,
                 env, socketService>>

\* mutant of rolledBackEvents: the insert bypasses the transaction and stays
rollbackKeepsInsert(p) == committedEvents(p)

\* await connection.rollback(): the ledger without the transaction's insert
rolledBackEvents(p) == match_events

\* mutant of rolledBackFixtures: the fixtures inserted so far stay
rollbackKeepsFixtures(p) == committedFixtures(p)

\* await connection.rollback(): table matches without the transaction's inserts
rolledBackFixtures(p) == created

\* a statement or the commit throws: await connection.rollback(); throw error
Rollback(p) ==
  /\ pc[p] \in {"validate", "insert", "score", "stats", "write", "call", "commit",
               "roster", "fixture", "category", "registered", "conflicts",
               "delete"}
  /\ match_events' = rolledBackEvents(p)
  /\ created' = rolledBackFixtures(p)
  /\ UNCHANGED <<matches, jumlah_gol>>
  /\ rowLock' = Release(p)
  /\ pend' = [pend EXCEPT ![p] = NoPend]
  /\ Finish(p, "StorageFailure")
  /\ UNCHANGED <<overridden, cmd, match, emitted, detail, brackets, teams, currentTime,
                 env, socketService, committed>>

(* ------------------ MatchController.addMatchEvent --------------------- *)
\* line 152: getMatchDetailWithLineup reads the committed match
AddDetail(p) ==
  /\ pc[p] = "detail"
  /\ \/ /\ detail' = [detail EXCEPT ![p] = getMatchById(cmd[p].id)]
        /\ pc' = [pc EXCEPT ![p] = "emit"]
        /\ UNCHANGED err
     \/ /\ Finish(p, "InternalError")
        /\ UNCHANGED detail
  /\ UNCHANGED <<db, rowLock, overridden, cmd, match, pend, emitted, gen,
               env, socketService, committed>>

NotificationOf(c) ==
  CASE c.op = "addMatchEvent" -> <<"match:event_added">>
    [] c.op = "updateMatch"   -> <<"match:updated">>
    [] c.op = "updateScore"   -> <<"match:score_updated">>
    [] c.op = "startMatch"    -> <<"match:started">>
    [] c.op = "pauseMatch"    -> <<"match:paused">>
    [] c.op = "resumeMatch"   -> <<"match:resumed">>
    [] c.op = "finishMatch"   -> <<"match:finished", "standings:updated">>

\* finishMatch, lines 278-287: the topic each notification goes to and the
\* fields of its payload
TopicOf(event) ==
  IF event = "standings:updated" THEN "category" ELSE "match"
Carries(event) ==
  CASE event = "match:finished"    -> {"match", "standings", "timestamp"}
    [] event = "standings:updated" -> {"standings"}

\* emitToMatch / emitToCategory, then the success response.  The controller
\* calls them through the bindings of import { emitToMatch, emitToCategory }
\* (line 5), detached from the SocketService instance the module exports: in a
\* build that calls an imported binding without its receiver, this.io throws a
\* TypeError, which asyncHandler answers as a failure.
Emit(p) ==
  /\ pc[p] = "emit"
  /\ IF receiver
     THEN /\ emitted' = [emitted EXCEPT ![p] = NotificationOf(cmd[p])]
          /\ Finish(p, "none")
     ELSE /\ UNCHANGED emitted
          /\ Finish(p, "InternalError")
  /\ UNCHANGED <<db, rowLock, overridden, cmd, match, pend, detail, gen,
               env, socketService, committed>>


(* --------------------- MatchService.updateMatch ----------------------- *)
\* the scores an override is asked to write: zero and the largest
ScoreInputs == {0, MaxScoreInput}
Absent == "absent"
Skor(s1, s2) == [tag |-> "skor", skor_1 |-> s1, skor_2 |-> s2]
\* request bodies: any subset of a status and a pair of scores, or a new
\* kickoff time, the 13:00 slot
UpdateData ==
  [status : Statuses \cup {Absent},
   skor : {Null} \cup {Skor(a, b) : a, b \in ScoreInputs},
   waktu : {Null}]
  \cup {[status |-> Absent, skor |-> Null, waktu |-> Minutes(DefaultJamAwal)]}

\* lines 296-299
rejectsFinished(currentMatch, updateData) ==
  currentMatch.status = FINISHED /\ updateData.status /= FINISHED

\* lines 301-315: no allowed field in the body
noValidFields(updateData) ==
  updateData.status = Absent /\ updateData.skor = Null /\ updateData.waktu = Null

\* lines 321-327: UPDATE matches SET <the given fields> WHERE id = ?
updateQuery(row, updateData) ==
  IF ~Truthy(row) THEN row
  ELSE [row EXCEPT
          !.status = IF updateData.status = Absent THEN @ ELSE updateData.status,
          !.skor_1 = IF updateData.skor = Null THEN @ ELSE updateData.skor.skor_1,
          !.skor_2 = IF updateData.skor = Null THEN @ ELSE updateData.skor.skor_2,
          !.waktu = IF updateData.waktu = Null THEN @ ELSE updateData.waktu.value]

StartUpdateMatch(p) ==
  /\ pc[p] = "idle"
  /\ \E id \in MatchIds, d \in UpdateData :
       cmd' = [cmd EXCEPT ![p] = [op |-> "updateMatch", id |-> id, data |-> d]]
  /\ pc' = [pc EXCEPT ![p] = "validate"]
  /\ UNCHANGED <<db, rowLock, overridden, match, pend, err, emitted, detail,
               gen,
               env, socketService, committed>>

UpdateMatchValidate(p) ==
  /\ pc[p] = "validate" /\ cmd[p].op = "updateMatch"
  /\ LET currentMatch == getMatchById(cmd[p].id) IN
       IF ~Truthy(currentMatch) THEN Finish(p, "NotFound") /\ UNCHANGED match
       ELSE IF rejectsFinished(currentMatch, cmd[p].data)
         THEN Finish(p, "ImmutableState") /\ UNCHANGED match
       ELSE IF noValidFields(cmd[p].data)
         THEN Finish(p, "BadRequest") /\ UNCHANGED match
       ELSE /\ match' = [match EXCEPT ![p] = currentMatch]
            /\ pc' = [pc EXCEPT ![p] = "write"]
            /\ UNCHANGED err
  /\ UNCHANGED <<db, rowLock, overridden, cmd, pend, emitted, detail, gen,
               env, socketService, committed>>

\* lines 327-330: the UPDATE, then getMatchById reads what is committed
UpdateMatchWrite(p) ==
  /\ pc[p] = "write" /\ cmd[p].op = "updateMatch"
  /\ rowLock[cmd[p].id] = "free"
  /\ rowLock' = [rowLock EXCEPT ![cmd[p].id] = p]
  /\ pend' = [pend EXCEPT ![p].row = updateQuery(matches[cmd[p].id], cmd[p].data)]
  /\ detail' = [detail EXCEPT ![p] = getMatchById(cmd[p].id)]
  /\ pc' = [pc EXCEPT ![p] = "commit"]
  /\ UNCHANGED <<db, overridden, cmd, match, err, emitted, gen,
               env, socketService, committed>>

(* --------------------- MatchService.deleteMatch ----------------------- *)
\* the foreign key from brackets.match_id to matches.id: a bracket entry
\* refers to the match
referenced(id) ==
  \E i \in 1..Len(brackets) : brackets[i].match_id = id

\* the header a DELETE resolves to on the transaction's connection
ResultSetHeader(n) == [tag |-> "result", affectedRows |-> n]

\* line 355: if (match.status === 'sedang_main') throw
inProgress(m) == m.status = LIVE

StartDeleteMatch(p) ==
  /\ pc[p] = "idle"
  /\ \E id \in MatchIds :
       cmd' = [cmd EXCEPT ![p] = [op |-> "deleteMatch", id |-> id]]
  /\ pc' = [pc EXCEPT ![p] = "validate"]
  /\ UNCHANGED <<db, rowLock, overridden, match, pend, err, emitted, detail,
               gen,
               env, socketService, committed>>

\* lines 350-357: the row comes from getMatchById, not from the transaction
DeleteValidate(p) ==
  /\ pc[p] = "validate" /\ cmd[p].op = "deleteMatch"
  /\ LET m == getMatchById(cmd[p].id) IN
       IF ~Truthy(m) THEN Finish(p, "NotFound") /\ UNCHANGED match
       ELSE IF inProgress(m)
         THEN Finish(p, "BadRequest") /\ UNCHANGED match
       ELSE /\ match' = [match EXCEPT ![p] = m]
            /\ pc' = [pc EXCEPT ![p] = "delete"]
            /\ UNCHANGED err
  /\ UNCHANGED <<db, rowLock, overridden, cmd, pend, emitted, detail, gen,
               env, socketService, committed>>

\* lines 360-365: DELETE FROM match_events, then DELETE FROM matches, which
\* waits for the row lock; the store refuses to delete a match that a
\* bracket entry refers to, and the transaction is rolled back
DeleteWrite(p) ==
  /\ pc[p] = "delete"
  /\ rowLock[cmd[p].id] = "free"
  /\ IF referenced(cmd[p].id)
     THEN /\ Finish(p, "StorageFailure")
          /\ UNCHANGED <<rowLock, pend, detail>>
     ELSE /\ rowLock' = [rowLock EXCEPT ![cmd[p].id] = p]
          /\ pend' = [pend EXCEPT ![p].deleted = TRUE]
          /\ detail' = [detail EXCEPT ![p] =
                          ResultSetHeader(IF Truthy(matches[cmd[p].id]) THEN 1 ELSE 0)]
          /\ pc' = [pc EXCEPT ![p] = "commit"]
          /\ UNCHANGED err
  /\ UNCHANGED <<db, overridden, cmd, match, emitted, gen,
               env, socketService, committed>>

\* line 372 and MatchController.deleteMatch: result.affectedRows > 0, or
\* sendNotFound
DeleteRespond(p) ==
  /\ pc[p] = "respond"
  /\ Finish(p, IF detail[p].affectedRows > 0 THEN "none" ELSE "NotFound")
  /\ UNCHANGED <<db, rowLock, overridden, cmd, match, pend, emitted, detail, gen,
               env, socketService, committed>>

(* --------------------- MatchService.updateScore ----------------------- *)
\* lines 518-524: UPDATE matches SET skor_1 = ?, skor_2 = ? WHERE id = ?
scoreQuery(row, skor1, skor2) ==
  IF ~Truthy(row) THEN row
  ELSE [row EXCEPT !.skor_1 = skor1, !.skor_2 = skor2]

StartUpdateScore(p) ==
  /\ pc[p] = "idle"
  /\ \E id \in MatchIds, a, b \in ScoreInputs :
       cmd' = [cmd EXCEPT ![p] = [op |-> "updateScore", id |-> id,
                                  skor_1 |-> a, skor_2 |-> b]]
  /\ pc' = [pc EXCEPT ![p] = "validate"]
  /\ UNCHANGED <<db, rowLock, overridden, match, pend, err, emitted, detail,
               gen,
               env, socketService, committed>>

UpdateScoreValidate(p) ==
  /\ pc[p] = "validate" /\ cmd[p].op = "updateScore"
  /\ LET m == getMatchById(cmd[p].id) IN
       IF ~Truthy(m) THEN Finish(p, "NotFound") /\ UNCHANGED match
       ELSE /\ match' = [match EXCEPT ![p] = m]
            /\ pc' = [pc EXCEPT ![p] = "write"]
            /\ UNCHANGED err
  /\ UNCHANGED <<db, rowLock, overridden, cmd, pend, emitted, detail, gen,
               env, socketService, committed>>

UpdateScoreWrite(p) ==
  /\ pc[p] = "write" /\ cmd[p].op = "updateScore"
  /\ rowLock[cmd[p].id] = "free"
  /\ rowLock' = [rowLock EXCEPT ![cmd[p].id] = p]
  /\ pend' = [pend EXCEPT ![p].row =
                scoreQuery(matches[cmd[p].id], cmd[p].skor_1, cmd[p].skor_2)]
  /\ detail' = [detail EXCEPT ![p] = getMatchById(cmd[p].id)]
  /\ pc' = [pc EXCEPT ![p] = "commit"]
  /\ UNCHANGED <<db, overridden, cmd, match, err, emitted, gen,
               env, socketService, committed>>

(* ---------- LiveMatchService (start, pause, resume, finish) ----------- *)
LiveOps == {"startMatch", "pauseMatch", "resumeMatch", "finishMatch"}

SourceOf(op) ==
  CASE op = "startMatch"  -> SCHEDULED
    [] op = "pauseMatch"  -> LIVE
    [] op = "resumeMatch" -> PAUSED
    [] op = "finishMatch" -> LIVE

TargetOf(op) ==
  CASE op = "startMatch"  -> LIVE
    [] op = "pauseMatch"  -> PAUSED
    [] op = "resumeMatch" -> LIVE
    [] op = "finishMatch" -> FINISHED

\* the transition is legal from the stored status, read in the writing transaction
legalTransition(row, op) == row.status = SourceOf(op)

\* mutants of afterLifecycle and afterFinish: the handler swallows the rejection
lifecycleAlwaysEmits(resolved) == "emit"
finishAlwaysEmits(resolved) == "emit"

\* MatchController.startMatch/pauseMatch/resumeMatch: a rejected service call
\* leaves the handler through asyncHandler's catch, a resolved one goes on to emit
afterLifecycle(resolved) == IF resolved THEN "emit" ELSE "done"

\* MatchController.finishMatch, the same
afterFinish(resolved) == IF resolved THEN "emit" ELSE "done"

afterService(op, resolved) ==
  IF op = "finishMatch" THEN afterFinish(resolved) ELSE afterLifecycle(resolved)

StartLive(p) ==
  /\ pc[p] = "idle"
  /\ \E id \in MatchIds, op \in LiveOps :
       cmd' = [cmd EXCEPT ![p] = [op |-> op, id |-> id]]
  /\ pc' = [pc EXCEPT ![p] = "call"]
  /\ UNCHANGED <<db, rowLock, overridden, match, pend, err, emitted, detail,
               gen,
               env, socketService, committed>>

\* one atomic unit of work on the match row: re-read, guard, conditional update
LiveTransition(p) ==
  /\ pc[p] = "call"
  /\ rowLock[cmd[p].id] = "free"
  /\ LET row == matches[cmd[p].id] IN
       IF ~Truthy(row)
         THEN Finish(p, "NotFound") /\ UNCHANGED <<matches, detail, committed>>
       ELSE IF ~legalTransition(row, cmd[p].op)
         THEN /\ pc' = [pc EXCEPT ![p] = afterService(cmd[p].op, FALSE)]
              /\ err' = [err EXCEPT ![p] = Failure("InvalidTransition", pc[p])]
              /\ UNCHANGED <<matches, detail, committed>>
       ELSE /\ matches' = [matches EXCEPT ![cmd[p].id].status = TargetOf(cmd[p].op)]
            /\ detail' = [detail EXCEPT ![p] = matches'[cmd[p].id]]
            /\ pc' = [pc EXCEPT ![p] = afterService(cmd[p].op, TRUE)]
            /\ committed' = [committed EXCEPT ![p] = TRUE]
            /\ UNCHANGED err
  /\ UNCHANGED <<match_events, jumlah_gol, rowLock, overridden, cmd, match, pend, emitted,
               gen,
               env, socketService>>

(* ------------------ MatchService.generateGroupMatches ----------------- *)
\* categories, groups and rosters the generator can be asked about
Kategori == {"K1", "K2", "K3"}
Grup     == {"A", "B"}

\* event_teams joined with teams, listed in the order of nama_club.
\* K1 has the groups A (three teams) and B (two teams), K2 one team in A and
\* the two teams of the stored match in B, K3 two teams in A and none in B.
event_teams ==
  << [tag |-> "row", id_kategori |-> "K1", grup |-> "A", id_team |-> "A"],
     [tag |-> "row", id_kategori |-> "K1", grup |-> "B", id_team |-> "B"],
     [tag |-> "row", id_kategori |-> "K1", grup |-> "A", id_team |-> "C"],
     [tag |-> "row", id_kategori |-> "K1", grup |-> "B", id_team |-> "D"],
     [tag |-> "row", id_kategori |-> "K1", grup |-> "A", id_team |-> "E"],
     [tag |-> "row", id_kategori |-> "K3", grup |-> "A", id_team |-> "F"],
     [tag |-> "row", id_kategori |-> "K3", grup |-> "A", id_team |-> "G"],
     [tag |-> "row", id_kategori |-> "K2", grup |-> "A", id_team |-> "H"],
     [tag |-> "row", id_kategori |-> "K2", grup |-> "B", id_team |-> "T1"],
     [tag |-> "row", id_kategori |-> "K2", grup |-> "B", id_team |-> "T2"] >>

\* SELECT et.id_team, t.nama_club FROM event_teams et JOIN teams t ...
\*   WHERE et.id_kategori = ? AND et.grup = ? ORDER BY t.nama_club
InGroup(r, id_kategori, grup) == r.id_kategori = id_kategori /\ r.grup = grup
teamsQuery(id_kategori, grup) ==
  LET at == {i \in 1..Len(event_teams) : InGroup(event_teams[i], id_kategori, grup)}
      nth(n) == CHOOSE i \in at : Cardinality({j \in at : j < i}) = n - 1
  IN [n \in 1..Cardinality(at) |-> event_teams[nth(n)]]

\* a property of a JavaScript value: of a row its column, of an array undefined
Undefined == "undefined"
Prop(v, name) == IF v.tag = "row" THEN v[name] ELSE Undefined

jam_awalOf(options) ==
  IF Truthy(options.jam_awal) THEN options.jam_awal.value ELSE DefaultJamAwal
jeda_menitOf(options) ==
  IF Truthy(options.jeda_menit) THEN options.jeda_menit.value ELSE DefaultJedaMenit

\* for (i = 0; i < length; i++) for (j = i + 1; j < length; j++): the pairs
\* <<i, j>> in the order the loop visits them (counted from 1)
RECURSIVE PairsFrom(_, _)
PairsFrom(i, length) ==
  IF i >= length THEN <<>>
  ELSE [d \in 1..(length - i) |-> <<i, i + d>>] \o PairsFrom(i + 1, length)
LoopPairs(length) == PairsFrom(1, length)

\* new Date(`${match_day_start}T${jam_awal}`) is a local time of the match
\* day; currentTime.toISOString() writes it as UTC (minutes from the start of
\* the match day, negative on the day before)
toISOString(minutes) == minutes - zone

\* INSERT INTO matches (...) VALUES (?, ?, ?, ?, ?, 'belum_main', 0, 0, ?)
FixtureRow(id_kategori, team_1, team_2, waktu, grup, userId) ==
  [tag |-> "row", id_kategori |-> id_kategori, team_1 |-> team_1, team_2 |-> team_2,
   waktu |-> waktu, grup |-> grup, status |-> SCHEDULED, skor_1 |-> 0, skor_2 |-> 0,
   created_by |-> userId]

StartGenerateGroup(p) ==
  /\ pc[p] = "idle"
  /\ \E k \in Kategori, g \in Grup,
        t \in {Null, Minutes(600), Minutes(360)}, d \in {Null, Minutes(45)} :
       cmd' = [cmd EXCEPT ![p] = [op |-> "generateGroupMatches", id_kategori |-> k,
                                  grup |-> g, jam_awal |-> t, jeda_menit |-> d]]
  /\ pc' = [pc EXCEPT ![p] = "roster"]
  /\ UNCHANGED <<db, rowLock, overridden, match, pend, err, emitted, detail, gen,
               env, socketService, committed>>

\* lines 599-608: const teams = await connection.query(teamsQuery, ...) is the
\* pair [rows, fields]; teams.length is the length of that pair
GroupTeams(p) ==
  /\ pc[p] = "roster"
  /\ LET result == ConnectionQuery(teamsQuery(cmd[p].id_kategori, cmd[p].grup)) IN
       IF Len(result) < 2
       THEN Finish(p, "InsufficientTeams") /\ UNCHANGED <<teams, currentTime>>
       ELSE /\ teams' = [teams EXCEPT ![p] = result]
            /\ currentTime' = [currentTime EXCEPT ![p] = jam_awalOf(cmd[p])]
            /\ pc' = [pc EXCEPT ![p] =
                        IF LoopPairs(Len(result)) = <<>> THEN "commit" ELSE "fixture"]
            /\ UNCHANGED err
  /\ UNCHANGED <<db, rowLock, overridden, cmd, match, pend, emitted, detail,
                 created, brackets,
                 env, socketService, committed>>

\* lines 610-642: one pass of the inner loop; teams[i].id_team is a property of
\* teams[i], and an undefined parameter is sent as NULL
GroupInsert(p) ==
  /\ pc[p] = "fixture"
  /\ LET pairs == LoopPairs(Len(teams[p]))
         n     == Len(pend[p].fixtures) + 1
         i     == pairs[n][1]
         j     == pairs[n][2]
     IN
       /\ pend' = [pend EXCEPT ![p].fixtures =
                     Append(@, FixtureRow(cmd[p].id_kategori,
                                          Prop(teams[p][i], "id_team"),
                                          Prop(teams[p][j], "id_team"),
                                          toISOString(currentTime[p]),
                                          cmd[p].grup, p))]
       /\ currentTime' = [currentTime EXCEPT ![p] = @ + jeda_menitOf(cmd[p])]
       /\ pc' = [pc EXCEPT ![p] = IF n = Len(pairs) THEN "commit" ELSE "fixture"]
  /\ UNCHANGED <<db, rowLock, overridden, cmd, match, err, emitted, detail,
                 created, brackets, teams,
                 env, socketService, committed>>

(* ----------------- MatchService.generateBracketMatches ---------------- *)
event_categories ==
  { [tag |-> "row", id |-> "K1", tipe_final |-> "final_four"],
    [tag |-> "row", id |-> "K2", tipe_final |-> "liga"],
    [tag |-> "row", id |-> "K3", tipe_final |-> "final_four"] }

\* SELECT * FROM event_categories WHERE id = ?
categoryQuery(id_kategori) == {c \in event_categories : c.id = id_kategori}

\* const [category] = await connection.query(categoryQuery, [id_kategori]): the
\* first element of [rows, fields]
categoryOf(id_kategori) == ConnectionQuery(categoryQuery(id_kategori))[1]

\* klasemen joined with event_teams, listed in the order of the query:
\* ORDER BY et.grup, k.point DESC, k.selisih DESC, k.goal_masuk DESC
klasemen ==
  << [tag |-> "row", id_kategori |-> "K1", grup |-> "A", id_team |-> "A",
      point |-> 9, selisih |-> 5, goal_masuk |-> 7],
     [tag |-> "row", id_kategori |-> "K1", grup |-> "A", id_team |-> "C",
      point |-> 6, selisih |-> 1, goal_masuk |-> 3],
     [tag |-> "row", id_kategori |-> "K1", grup |-> "A", id_team |-> "E",
      point |-> 1, selisih |-> -7, goal_masuk |-> 1],
     [tag |-> "row", id_kategori |-> "K1", grup |-> "B", id_team |-> "B",
      point |-> 9, selisih |-> 2, goal_masuk |-> 4],
     [tag |-> "row", id_kategori |-> "K1", grup |-> "B", id_team |-> "D",
      point |-> 3, selisih |-> -1, goal_masuk |-> 2],
     [tag |-> "row", id_kategori |-> "K3", grup |-> "A", id_team |-> "F",
      point |-> 3, selisih |-> 1, goal_masuk |-> 1],
     [tag |-> "row", id_kategori |-> "K3", grup |-> "A", id_team |-> "G",
      point |-> 0, selisih |-> -1, goal_masuk |-> 0],
     [tag |-> "row", id_kategori |-> "K2", grup |-> "A", id_team |-> "H",
      point |-> 0, selisih |-> 0, goal_masuk |-> 0] >>

\* SELECT k.*, t.nama_club, et.grup FROM klasemen k ... WHERE k.id_kategori = ?
standingsQuery(id_kategori) ==
  LET at == {i \in 1..Len(klasemen) : klasemen[i].id_kategori = id_kategori}
      nth(n) == CHOOSE i \in at : Cardinality({j \in at : j < i}) = n - 1
  IN [n \in 1..Cardinality(at) |-> klasemen[nth(n)]]

StartGenerateBracket(p) ==
  /\ pc[p] = "idle"
  /\ \E k \in Kategori :
       cmd' = [cmd EXCEPT ![p] = [op |-> "generateBracketMatches", id_kategori |-> k]]
  /\ pc' = [pc EXCEPT ![p] = "category"]
  /\ UNCHANGED <<db, rowLock, overridden, match, pend, err, emitted, detail, gen,
               env, socketService, committed>>

\* lines 666-674: category.tipe_final is a property of the array of rows.  The
\* rest of the handler (lines 676-772) runs only past these two checks.
BracketCategory(p) ==
  /\ pc[p] = "category"
  /\ LET category == categoryOf(cmd[p].id_kategori) IN
       IF ~Truthy(category) THEN Finish(p, "NotFound")
       ELSE IF Prop(category, "tipe_final") /= "final_four"
         THEN Finish(p, "UnsupportedFormat")
       ELSE pc' = [pc EXCEPT ![p] = "standings"] /\ UNCHANGED err
  /\ UNCHANGED <<db, rowLock, overridden, cmd, match, pend, emitted, detail, gen,
               env, socketService, committed>>

(* ---------------------- MatchService.createMatch --------------------- *)
\* SELECT et.id_team, t.nama_club FROM event_teams et JOIN teams t ...
\*   WHERE et.id_kategori = ? AND et.id_team IN (?, ?)
registeredQuery(id_kategori, team_1, team_2) ==
  {i \in 1..Len(event_teams) :
     /\ event_teams[i].id_kategori = id_kategori
     /\ event_teams[i].id_team \in {team_1, team_2}}

\* SELECT id FROM matches WHERE waktu = ? AND (team_1 IN (?, ?) OR
\*   team_2 IN (?, ?)) AND status != 'cancelled'
booked(row, waktu, team_1, team_2) ==
  /\ row.waktu = waktu
  /\ row.team_1 \in {team_1, team_2} \/ row.team_2 \in {team_1, team_2}
  /\ row.status /= CANCELLED
conflictQuery(waktu, team_1, team_2) ==
  {m \in MatchIds : Truthy(matches[m]) /\ booked(matches[m], waktu, team_1, team_2)}
  \cup {Cardinality(MatchIds) + i : i \in {j \in 1..Len(created) :
                                    booked(created[j], waktu, team_1, team_2)}}

\* if (teams.length !== 2)
teamsMissing(result) == Len(result) /= 2

\* mutant of hasConflicts: the length of the rows, not of [rows, fields]
rowsConflict(result) == Cardinality(result[1].items) > 0

\* if (conflicts.length > 0)
hasConflicts(result) == Len(result) > 0

\* MatchController.createMatch, lines 96-100
StartCreateMatch(p) ==
  /\ pc[p] = "idle"
  /\ \E k \in {"K2", "K3"}, t1 \in Teams, t2 \in Teams,
        w \in {DefaultJamAwal, DefaultJamAwal + DefaultJedaMenit} :
       /\ cmd' = [cmd EXCEPT ![p] = [op |-> "createMatch", id_kategori |-> k,
                                     team_1 |-> t1, team_2 |-> t2, waktu |-> w]]
       /\ IF t1 = t2
          THEN /\ pc' = [pc EXCEPT ![p] = "done"]
               /\ err' = [err EXCEPT ![p] = Failure("BadRequest", "controller")]
          ELSE pc' = [pc EXCEPT ![p] = "registered"] /\ UNCHANGED err
  /\ UNCHANGED <<db, rowLock, overridden, match, pend, emitted, detail, gen,
               env, socketService, committed>>

\* lines 226-234: const teams = await connection.query(teamsQuery, ...)
CreateTeams(p) ==
  /\ pc[p] = "registered"
  /\ LET c == cmd[p]
         result == ConnectionQuery(registeredQuery(c.id_kategori, c.team_1, c.team_2))
     IN IF teamsMissing(result) THEN Finish(p, "TeamsNotRegistered")
        ELSE pc' = [pc EXCEPT ![p] = "conflicts"] /\ UNCHANGED err
  /\ UNCHANGED <<db, rowLock, overridden, cmd, match, pend, emitted, detail, gen,
               env, socketService, committed>>

\* lines 244-252: const conflicts = await connection.query(conflictQuery, ...).
\* The insert (lines 255-269) runs only past this check.
CreateConflicts(p) ==
  /\ pc[p] = "conflicts"
  /\ LET c == cmd[p]
         result == ConnectionQuery(conflictQuery(c.waktu, c.team_1, c.team_2))
     IN IF hasConflicts(result) THEN Finish(p, "SchedulingConflict")
        ELSE pc' = [pc EXCEPT ![p] = "insertMatch"] /\ UNCHANGED err
  /\ UNCHANGED <<db, rowLock, overridden, cmd, match, pend, emitted, detail, gen,
               env, socketService, committed>>

(* ---------------------------- SocketService --------------------------- *)
\* io.use(...), lines 33-50: the rate limiter of the handshake
limited(client, at) ==
  /\ Truthy(client)
  /\ ~(at - client.lastReset > WindowMs)
  /\ client.count >= Quota
counted(client, at) ==
  IF ~Truthy(client) THEN [tag |-> "row", count |-> 1, lastReset |-> at]
  ELSE IF at - client.lastReset > WindowMs
    THEN [client EXCEPT !.count = 1, !.lastReset = at]
  ELSE [client EXCEPT !.count = @ + 1]

\* a handshake from origin o: next(new Error('Rate limit exceeded')) or next()
Handshake(o) ==
  /\ IF limited(connections[o], now) THEN UNCHANGED <<connections, admitted>>
     ELSE /\ connections' = [connections EXCEPT ![o] = counted(@, now)]
          /\ admitted' = [admitted EXCEPT ![o][now] = @ + 1]
  /\ UNCHANGED <<http, env, now, sockets, rooms, joinCooldowns, delivered,
                 published,
                 refused>>

\* time passes between handshakes
LongTick ==
  /\ now + LongTickMs <= BootTime + MaxLongTicks * LongTickMs
  /\ now' = now + LongTickMs
  /\ UNCHANGED <<http, env, connections, admitted, sockets, rooms,
                 joinCooldowns, delivered, published,
                 refused>>

\* io.on('connection', ...), lines 70-77
Connect(s) ==
  /\ sockets[s] = "new"
  /\ sockets' = [sockets EXCEPT ![s] = "connected"]
  /\ rooms' = [rooms EXCEPT ![s] = {generalRoom}]
  /\ UNCHANGED <<http, env, now, connections, admitted, joinCooldowns,
                 delivered, published,
                 refused>>

\* const lastJoin = cooldowns.get(socket.id + room) || 0
lastJoinOf(cooldowns, room) ==
  IF Truthy(cooldowns[room]) THEN cooldowns[room].value ELSE 0
\* mutant of withinCooldown: no cooldown
noCooldown(at, lastJoin) == FALSE
\* if (now - lastJoin < cooldownMs) return
withinCooldown(at, lastJoin) == at - lastJoin < cooldownMs

\* joinWithCooldown(socket, room, cooldowns, cooldownMs), lines 110-122
joinWithCooldown(s, room) ==
  IF withinCooldown(now, lastJoinOf(joinCooldowns[s], room))
  THEN /\ refused' = [refused EXCEPT ![s] = @ \cup {room}]
       /\ UNCHANGED <<joinCooldowns, rooms>>
  ELSE /\ joinCooldowns' = [joinCooldowns EXCEPT ![s][room] = Millis(now)]
       /\ rooms' = [rooms EXCEPT ![s] = @ \cup {room}]
       /\ UNCHANGED refused

\* socket.on('join_match', ...) and socket.on('join_category', ...)
Join(s, room) ==
  /\ sockets[s] = "connected"
  /\ joinWithCooldown(s, room)
  /\ UNCHANGED <<http, env, now, connections, admitted, sockets, delivered,
                 published>>

\* socket.on('leave_match', ...) and socket.on('leave_category', ...)
Leave(s, room) ==
  /\ sockets[s] = "connected"
  /\ rooms' = [rooms EXCEPT ![s] = @ \ {room}]
  /\ UNCHANGED <<http, env, now, connections, admitted, sockets,
                 joinCooldowns, delivered, published,
                 refused>>

\* cleanupClient, lines 130-137: the entries carry no socketId
cleanupClient(s) ==
  [o \in Origins |->
     IF /\ Truthy(connections[o])
        /\ "socketId" \in DOMAIN connections[o]
        /\ connections[o].socketId = s
     THEN Null ELSE connections[o]]

\* socket.on('disconnect', ...): the connection has left all its rooms
Disconnect(s) ==
  /\ sockets[s] = "connected"
  /\ sockets' = [sockets EXCEPT ![s] = "disconnected"]
  /\ rooms' = [rooms EXCEPT ![s] = {}]
  /\ connections' = cleanupClient(s)
  /\ UNCHANGED <<http, env, now, admitted, joinCooldowns, delivered,
                 published,
                 refused>>

\* mutant of Recipients: emitToAll
everyConnection(room) == {s \in Sockets : sockets[s] = "connected"}
\* this.io.to(room): the connections in the room
Recipients(room) == {s \in Sockets : room \in rooms[s]}

\* emitToMatch and emitToCategory called on the service, lines 140-146
EmitTo(room) ==
  /\ Len(published) < MaxPublished
  /\ LET n == [room |-> room, serial |-> Len(published) + 1] IN
       /\ published' = Append(published, n)
       /\ delivered' = [s \in Sockets |->
                          IF s \in Recipients(room) THEN Append(delivered[s], n)
                          ELSE delivered[s]]
  /\ UNCHANGED <<http, env, now, connections, admitted, sockets, rooms,
                 joinCooldowns,
                 refused>>

\* time passes between the requests of the connections
Tick ==
  /\ now + TickMs <= BootTime + MaxTicks * TickMs
  /\ now' = now + TickMs
  /\ UNCHANGED <<http, env, connections, admitted, sockets, rooms,
                 joinCooldowns, delivered, published,
                 refused>>

(* --------------------------- specification ---------------------------- *)
Next ==
  \E p \in Procs :
    \/ StartAddMatchEvent(p)
    \/ AddValidate(p)
    \/ AddInsert(p)
    \/ AddScore(p)
    \/ AddStats(p)
    \/ StartUpdateMatch(p)
    \/ UpdateMatchValidate(p)
    \/ UpdateMatchWrite(p)
    \/ StartUpdateScore(p)
    \/ UpdateScoreValidate(p)
    \/ UpdateScoreWrite(p)
    \/ StartLive(p)
    \/ LiveTransition(p)
    \/ Commit(p)
    \/ Rollback(p)
    \/ AddDetail(p)
    \/ Emit(p)

\* only the schedule generator converts local time: for the other commands one
\* zone stands for all
InitCommands == Init /\ zone = 0

Spec == InitCommands /\ [][Next]_vars

\* the commands of MatchService alone, without the lifecycle service
NextService ==
  \E p \in Procs :
    \/ StartAddMatchEvent(p)
    \/ AddValidate(p)
    \/ AddInsert(p)
    \/ AddScore(p)
    \/ AddStats(p)
    \/ StartUpdateMatch(p)
    \/ UpdateMatchValidate(p)
    \/ UpdateMatchWrite(p)
    \/ StartUpdateScore(p)
    \/ UpdateScoreValidate(p)
    \/ UpdateScoreWrite(p)
    \/ Commit(p)
    \/ Rollback(p)
    \/ AddDetail(p)
    \/ Emit(p)

SpecService == InitCommands /\ [][NextService]_vars

\* addMatchEvent alone, from its validation to its notification
NextEvents ==
  \E p \in Procs :
    \/ StartAddMatchEvent(p)
    \/ AddValidate(p)
    \/ AddInsert(p)
    \/ AddScore(p)
    \/ AddStats(p)
    \/ Commit(p)
    \/ Rollback(p)
    \/ AddDetail(p)
    \/ Emit(p)

SpecEvents == InitCommands /\ [][NextEvents]_vars

\* updateMatch and deleteMatch on the store of a tournament under way
NextMaintain ==
  \E p \in Procs :
    \/ StartUpdateMatch(p)
    \/ UpdateMatchValidate(p)
    \/ UpdateMatchWrite(p)
    \/ StartDeleteMatch(p)
    \/ DeleteValidate(p)
    \/ DeleteWrite(p)
    \/ DeleteRespond(p)
    \/ Commit(p)
    \/ Rollback(p)
    \/ Emit(p)

InitMaintain == TournamentStore /\ Idle /\ receiver /\ zone = 0

SpecMaintain == InitMaintain /\ [][NextMaintain]_vars

\* the schedule generator, which runs independently of the lifecycle commands
NextSchedule ==
  \E p \in Procs :
    \/ StartGenerateGroup(p)
    \/ GroupTeams(p)
    \/ GroupInsert(p)
    \/ StartGenerateBracket(p)
    \/ BracketCategory(p)
    \/ StartCreateMatch(p)
    \/ CreateTeams(p)
    \/ CreateConflicts(p)
    \/ Commit(p)
    \/ Rollback(p)

\* no schedule command publishes: one build stands for both
InitSchedule == Init /\ receiver

SpecSchedule == InitSchedule /\ [][NextSchedule]_vars

\* the admission of handshakes
NextAdmission ==
  \/ \E o \in Origins : Handshake(o)
  \/ LongTick

\* SocketService runs beside the HTTP commands and reads none of their state
InitSocket == InitCommands /\ receiver /\ matches[1].status = SCHEDULED

SpecAdmission == InitSocket /\ [][NextAdmission]_vars

\* connections subscribing and leaving as time passes
NextSubscribe ==
  \/ \E s \in Sockets :
       \/ Connect(s)
       \/ \E room \in Topics : Join(s, room) \/ Leave(s, room)
       \/ Disconnect(s)
  \/ Tick

SpecSubscribe == InitSocket /\ [][NextSubscribe]_vars

\* connections subscribing, leaving and receiving what is published
NextDeliver ==
  \/ \E s \in Sockets :
       \/ Connect(s)
       \/ \E room \in Topics : Join(s, room) \/ Leave(s, room)
       \/ Disconnect(s)
  \/ \E room \in Topics : EmitTo(room)

SpecDeliver == InitSocket /\ [][NextDeliver]_vars

(* ============================ properties ============================== *)
IsAdd(p) == cmd[p].op = "addMatchEvent"
IsGoalKind(j) == j \in {GOL, BUNUH_DIRI}
\* the request's transaction has committed
Committed(p) ==
  \/ pc[p] \in {"detail", "emit"}
  \/ pc[p] = "done" /\ err[p].kind \in {"none", "InternalError"}
\* this step is the commit of p's addMatchEvent transaction
AddCommits(p) == IsAdd(p) /\ pc[p] = "commit" /\ pc'[p] = "detail"
\* this step is a step of request p
Moves(p) == pc'[p] /= pc[p]

LedgerOf(m) == {i \in 1..Len(match_events) : match_events[i].id_match = m}
CreditsTeam1(e, row) ==
  \/ e.jenis = GOL /\ e.id_team = row.team_1
  \/ e.jenis = BUNUH_DIRI /\ e.id_team = row.team_2
CreditsTeam2(e, row) ==
  \/ e.jenis = GOL /\ e.id_team = row.team_2
  \/ e.jenis = BUNUH_DIRI /\ e.id_team = row.team_1

\* C1: on a match whose score was never overridden, score_1 is the number of
\* committed events crediting team 1 (GOAL by team_1, OWN_GOAL by team_2) and
\* score_2 the number crediting team 2.
C1_ScoreEqualsLedger ==
  \A m \in MatchIds :
    (Truthy(matches[m]) /\ ~overridden[m]) =>
      /\ matches[m].skor_1 =
           Cardinality({i \in LedgerOf(m) : CreditsTeam1(match_events[i], matches[m])})
      /\ matches[m].skor_2 =
           Cardinality({i \in LedgerOf(m) : CreditsTeam2(match_events[i], matches[m])})

\* two requests that each record a GOAL on the same match
TwoGoals ==
  \E p, q \in Procs :
    /\ p /= q /\ IsAdd(p) /\ IsAdd(q)
    /\ cmd[p].id = cmd[q].id
    /\ cmd[p].jenis = GOL /\ cmd[q].jenis = GOL

\* C2: once two addMatchEvent calls recording a GOAL on the same match have both
\* committed, score_1 + score_2 is exactly 2 more than before them (0-0).
C2_NoLostIncrement ==
  (TwoGoals /\ \A p \in Procs : Committed(p)) =>
    \A p \in Procs : matches[cmd[p].id].skor_1 + matches[cmd[p].id].skor_2 = 2

\* both calls validated against the 0-0 row, so neither saw the other's commit
C2_Witness ==
  /\ TwoGoals
  /\ \A p \in Procs : Committed(p) /\ match[p].skor_1 + match[p].skor_2 = 0

\* C3: addMatchEvent is all-or-nothing.  Its commit makes the event, the score
\* increment and the goal-counter increment visible in one step; every other
\* step of the request, a failure at any statement included, leaves events,
\* scores and goal counters as they were.
C3_AllOrNothing ==
  [][\A p \in Procs :
       (IsAdd(p) /\ Moves(p)) =>
         IF AddCommits(p)
         THEN LET m == cmd[p].id IN
              /\ Len(match_events') = Len(match_events) + 1
              /\ match_events'[Len(match_events')].id_pemain = cmd[p].id_pemain
              /\ match_events'[Len(match_events')].jenis = cmd[p].jenis
              /\ matches'[m].skor_1 + matches'[m].skor_2 =
                   matches[m].skor_1 + matches[m].skor_2
                   + (IF IsGoalKind(cmd[p].jenis) THEN 1 ELSE 0)
              /\ \A r \in pemain_event :
                   jumlah_gol'[r] = jumlah_gol[r]
                     + (IF cmd[p].jenis = GOL /\ r.id_pemain = cmd[p].id_pemain
                        THEN 1 ELSE 0)
         ELSE UNCHANGED db
    ]_vars

\* a GOAL whose transaction failed after its last statement, nothing of it stored
C3_Witness ==
  \E p \in Procs :
    /\ IsAdd(p) /\ cmd[p].jenis = GOL /\ cmd[p].id_pemain = "P1"
    /\ pc[p] = "done" /\ err[p] = Failure("StorageFailure", "commit")
    /\ match_events = <<>>
    /\ \A r \in pemain_event : jumlah_gol[r] = 0
    /\ matches[cmd[p].id].skor_1 + matches[cmd[p].id].skor_2 = 0

\* C4: addMatchEvent on a match that is not LIVE is answered MatchNotInProgress,
\* on an unknown match id NotFound (unless the read itself fails); either way
\* nothing is inserted and no score changes.
C4_OnlyWhileLive ==
  [][\A p \in Procs :
       (IsAdd(p) /\ pc[p] = "validate" /\ Moves(p)) =>
         LET m == matches[cmd[p].id] IN
         /\ (~Truthy(m) \/ m.status /= LIVE) =>
              /\ pc'[p] = "done"
              /\ pend'[p] = NoPend
              /\ UNCHANGED db
              /\ err'[p].kind \in
                   {IF Truthy(m) THEN "MatchNotInProgress" ELSE "NotFound",
                    "StorageFailure"}
    ]_vars

C4_Witness ==
  \E p, q \in Procs :
    /\ IsAdd(p) /\ pc[p] = "done" /\ err[p].kind = "MatchNotInProgress"
    /\ IsAdd(q) /\ pc[q] = "done" /\ err[q].kind = "NotFound"
    /\ match_events = <<>>

\* C5: no event commits to a match whose committed status is not LIVE at the
\* moment of the commit.
C5_CommitsOnlyWhileLive ==
  [][\A p \in Procs :
       AddCommits(p) => matches[cmd[p].id].status = LIVE
    ]_vars

\* C6: an addMatchEvent for a player with no registration under either team of
\* the match never gets past validation: it is answered PlayerNotEligible and
\* stores nothing.
C6_IneligiblePlayerRejected ==
  \A p \in Procs :
    (IsAdd(p) /\ Truthy(match[p])
       /\ playerQuery(cmd[p].id_pemain, match[p]) = {}) =>
      /\ pc[p] = "done"
      /\ err[p].kind \in {"PlayerNotEligible", "StorageFailure"}

LifecycleEdges ==
  {<<SCHEDULED, LIVE>>, <<LIVE, PAUSED>>, <<PAUSED, LIVE>>,
   <<LIVE, FINISHED>>, <<SCHEDULED, CANCELLED>>}

\* C8: a match's status only ever changes along the lifecycle edges.
C8_OnlyLifecycleEdges ==
  [][\A m \in MatchIds :
       (Truthy(matches[m]) /\ Truthy(matches'[m])
          /\ matches'[m].status /= matches[m].status) =>
         <<matches[m].status, matches'[m].status>> \in LifecycleEdges
    ]_vars

\* the request was answered with success, or is about to be
Succeeded(p) == pc[p] = "emit" \/ (pc[p] = "done" /\ err[p] = NoFailure)

\* what a lifecycle call that does not succeed may be answered with
RejectedWith(row, source) ==
  IF ~Truthy(row) THEN {"NotFound", "StorageFailure"}
  ELSE IF row.status /= source THEN {"InvalidTransition", "StorageFailure"}
  ELSE {"StorageFailure"}

Scores(row) == <<row.skor_1, row.skor_2>>

TwoFinishes ==
  \A p \in Procs : cmd[p].op = "finishMatch" /\ cmd[p].id = 1

AtMostOneFinish == TwoFinishes => ~(\A p \in Procs : Succeeded(p))

\* C10: finish succeeds only on a LIVE match; of two finish commands on the same
\* match at most one succeeds, the other is answered InvalidTransition and
\* leaves the score as it is.
C10_FinishOnce ==
  [][/\ \A p \in Procs :
          (cmd[p].op = "finishMatch" /\ pc[p] = "call" /\ Moves(p)) =>
            LET row == matches[cmd[p].id] IN
            IF Truthy(row) /\ row.status = LIVE /\ pc'[p] = "emit"
            THEN /\ matches'[cmd[p].id].status = FINISHED
                 /\ Scores(matches'[cmd[p].id]) = Scores(row)
            ELSE /\ pc'[p] = "done"
                 /\ UNCHANGED matches
                 /\ err'[p].kind \in RejectedWith(row, LIVE)
     /\ AtMostOneFinish'
    ]_vars

C10_Witness ==
  \E p, q \in Procs :
    /\ TwoFinishes
    /\ pc[p] = "done" /\ err[p] = NoFailure
    /\ emitted[p] = <<"match:finished", "standings:updated">>
    /\ pc[q] = "done" /\ err[q].kind = "InvalidTransition"
    /\ matches[1] = MatchRow("T1", "T2", FINISHED, 0, 0)

IsUpdateScore(p) == cmd[p].op = "updateScore"
IsUpdateMatch(p) == cmd[p].op = "updateMatch"

\* C11: updateScore on a FINISHED match fails and leaves both scores as they
\* are; on any other match its commit sets the scores to exactly the given
\* values and adds no event to the ledger.
C11_OverrideOnlyBeforeFinished ==
  [][\A p \in Procs :
       LET row == matches[cmd[p].id] IN
       (IsUpdateScore(p) /\ Moves(p) /\ Truthy(row)) =>
         IF row.status = FINISHED
         THEN /\ pc'[p] /= "emit"
              /\ pc'[p] = "done" =>
                   err'[p].kind \in {"ImmutableState", "StorageFailure"}
              /\ UNCHANGED matches
         ELSE (pc[p] = "commit" /\ pc'[p] = "emit") =>
                /\ Scores(matches'[cmd[p].id]) = <<cmd[p].skor_1, cmd[p].skor_2>>
                /\ UNCHANGED match_events
    ]_vars

\* C12: an updateMatch call on a FINISHED match is answered ImmutableState,
\* whatever its payload, and no field of the match changes.
C12_FinishedIsImmutable ==
  [][\A p \in Procs :
       LET row == matches[cmd[p].id] IN
       (IsUpdateMatch(p) /\ Moves(p) /\ Truthy(row) /\ row.status = FINISHED) =>
         /\ pc'[p] /= "emit"
         /\ pc'[p] = "done" =>
              err'[p].kind \in {"ImmutableState", "StorageFailure"}
         /\ UNCHANGED matches
    ]_vars
(* ------------------------- schedule generation ------------------------ *)
IsGroupCall(p) == cmd[p].op = "generateGroupMatches"
IsBracketCall(p) == cmd[p].op = "generateBracketMatches"
Answered(p) == pc[p] = "done"

\* the rows of a table that a request inserted
RowsBy(rows, p) == SelectSeq(rows, LAMBDA r : r.created_by = p)
\* the roster the call is about, and the ids of its teams
RosterOf(p) == teamsQuery(cmd[p].id_kategori, cmd[p].grup)
RosterTeams(p) == {RosterOf(p)[i].id_team : i \in 1..Len(RosterOf(p))}
FixtureCount(n) == (n * (n - 1)) \div 2

\* C13: a generateGroupMatches call that succeeds on a roster of n >= 2 teams
\* has created n*(n-1)/2 matches, none pairing a team with itself, and every
\* unordered pair of roster teams is the pair of exactly one of them.
C13_RoundRobin ==
  \A p \in Procs :
    (IsGroupCall(p) /\ Succeeded(p) /\ Len(RosterOf(p)) >= 2) =>
      LET F == RowsBy(created, p) IN
      /\ Len(F) = FixtureCount(Len(RosterOf(p)))
      /\ \A n \in 1..Len(F) : F[n].team_1 /= F[n].team_2
      /\ \A a, b \in RosterTeams(p) :
           a /= b =>
             Cardinality({n \in 1..Len(F) : {F[n].team_1, F[n].team_2} = {a, b}}) = 1

C15_InsufficientTeams ==
  \A p \in Procs :
    (IsGroupCall(p) /\ Answered(p) /\ Len(RosterOf(p)) < 2) =>
      /\ err[p] \in {Failure("InsufficientTeams", "roster"),
                     Failure("StorageFailure", "roster")}
      /\ RowsBy(created, p) = <<>>

\* C16: a schedule generation call changes the stored matches and brackets in
\* one step only, its commit, which adds all its fixtures; a call that fails,
\* at whichever insert or at the commit, leaves both tables as they were and
\* nothing it inserted is stored.
C16_GenerationAtomic ==
  [][\A p \in Procs :
       (cmd[p].op \in GenerateOps /\ Moves(p)) =>
         /\ IF pc[p] = "commit" /\ pc'[p] = "done" /\ err'[p] = NoFailure
            THEN created' = created \o pend[p].fixtures /\ UNCHANGED brackets
            ELSE UNCHANGED <<created, brackets>>
         /\ (pc'[p] = "done" /\ err'[p] /= NoFailure) => RowsBy(created', p) = <<>>
    ]_vars

\* one call failed at its commit, after its insert, and stored nothing, while
\* the fixture of the other call is stored
C16_Witness ==
  \E p, q \in Procs :
    /\ IsGroupCall(p) /\ Answered(p) /\ err[p] = Failure("StorageFailure", "commit")
    /\ RowsBy(created, p) = <<>>
    /\ IsGroupCall(q) /\ Succeeded(q)
    /\ Len(created) = 1 /\ created[1].created_by = q

\* the category is configured for a four-team knockout final stage
FinalFour(k) == \E c \in event_categories : c.id = k /\ c.tipe_final = "final_four"
\* rows of the standings that are among the first two of their group
Qualified(k) ==
  LET S == standingsQuery(k) IN
  {i \in 1..Len(S) : Cardinality({j \in 1..(i - 1) : S[j].grup = S[i].grup}) < 2}
\* semifinal matches and bracket entries stored for a category
SemifinalsOf(k) ==
  {i \in 1..Len(created) :
     created[i].id_kategori = k /\ created[i].grup = "semifinal"}
BracketsOf(k) == {i \in 1..Len(brackets) : brackets[i].id_kategori = k}
NoBracketRows(k) == SemifinalsOf(k) = {} /\ BracketsOf(k) = {}

\* C17: a generateBracketMatches call is answered UnsupportedFormat when the
\* category is not 'final_four' and InsufficientQualifiers when the first two
\* of each group are fewer than four teams (unless a read fails); either way
\* no match and no bracket entry is stored for the category.
C17_BracketPreconditions ==
  \A p \in Procs :
    (IsBracketCall(p) /\ Answered(p)) =>
      LET k == cmd[p].id_kategori IN
      /\ ~FinalFour(k) =>
           /\ err[p].kind \in {"UnsupportedFormat", "StorageFailure"}
           /\ NoBracketRows(k)
      /\ (FinalFour(k) /\ Cardinality(Qualified(k)) < 4) =>
           /\ err[p].kind \in {"InsufficientQualifiers", "StorageFailure"}
           /\ NoBracketRows(k)

\* row a of the standings ranks before row b: more points, then better goal
\* difference, then more goals, then the earlier place in the standings
RanksBefore(S, a, b) ==
  \/ S[a].point > S[b].point
  \/ S[a].point = S[b].point /\ S[a].selisih > S[b].selisih
  \/ S[a].point = S[b].point /\ S[a].selisih = S[b].selisih
       /\ S[a].goal_masuk > S[b].goal_masuk
  \/ S[a].point = S[b].point /\ S[a].selisih = S[b].selisih
       /\ S[a].goal_masuk = S[b].goal_masuk /\ a < b
\* the team seeded n-th among the qualified teams of a category
Seed(k, n) ==
  LET S == standingsQuery(k)
      i == CHOOSE x \in Qualified(k) :
             Cardinality({y \in Qualified(k) : RanksBefore(S, y, x)}) = n - 1
  IN S[i].id_team
\* a bracket call on a category that meets the preconditions has been answered
\* and no storage failure stopped it
BracketCallRan(p) ==
  /\ IsBracketCall(p) /\ Answered(p) /\ err[p].kind /= "StorageFailure"
  /\ FinalFour(cmd[p].id_kategori)
  /\ Cardinality(Qualified(cmd[p].id_kategori)) >= 4
SeededTeams(k) ==
  UNION {{created[i].team_1, created[i].team_2} : i \in SemifinalsOf(k)}

\* C18: the teams generateBracketMatches seeds are the first four of the
\* qualified teams (first two of each group) in the order of points, then goal
\* difference, then goals scored, ties keeping the order of the standings.
C18_SeedOrder ==
  \A p \in Procs :
    BracketCallRan(p) =>
      LET k == cmd[p].id_kategori IN
      /\ SeededTeams(k) = {Seed(k, n) : n \in 1..4}
      /\ SeededTeams(k) \subseteq
           {standingsQuery(k)[i].id_team : i \in Qualified(k)}

\* C19: semifinal SF1 pairs seed 1 with seed 4 and SF2 pairs seed 2 with
\* seed 3 (A-D and B-C for the standings A 9/+5, B 9/+2, C 6/+1, D 3/-1).
C19_CrossPairing ==
  \A p \in Procs :
    BracketCallRan(p) =>
      LET k == cmd[p].id_kategori IN
      /\ \E i \in BracketsOf(k) :
           /\ brackets[i].kode = "SF1"
           /\ brackets[i].team_1 = Seed(k, 1) /\ brackets[i].team_2 = Seed(k, 4)
      /\ \E i \in BracketsOf(k) :
           /\ brackets[i].kode = "SF2"
           /\ brackets[i].team_1 = Seed(k, 2) /\ brackets[i].team_2 = Seed(k, 3)

IsCreateCall(p) == cmd[p].op = "createMatch"
\* one of the two teams is already booked at the requested time
Conflicting(p) ==
  conflictQuery(cmd[p].waktu, cmd[p].team_1, cmd[p].team_2) /= {}
\* one of the two teams is not registered for the category
Unregistered(p) ==
  Cardinality(registeredQuery(cmd[p].id_kategori, cmd[p].team_1, cmd[p].team_2)) /= 2
\* the call got past the controller to MatchService.createMatch
ReachedService(p) == cmd[p].team_1 /= cmd[p].team_2

\* C21: createMatch fails with SchedulingConflict and creates no match when one
\* of the two teams already appears in a non-cancelled match at the same time,
\* and it fails and creates no match when one of the two teams is not
\* registered for the category.
C21_ConflictOrUnregisteredFails ==
  \A p \in Procs :
    (IsCreateCall(p) /\ ReachedService(p)) =>
      /\ (Conflicting(p) \/ Unregistered(p)) =>
           /\ pc[p] /= "insertMatch"
           /\ pend[p].fixtures = <<>> /\ RowsBy(created, p) = <<>>
           /\ Answered(p) => err[p] /= NoFailure
      /\ (Conflicting(p) /\ Answered(p)) =>
           err[p].kind \in {"SchedulingConflict", "StorageFailure"}

\* one call with a booked team answered SchedulingConflict, another with an
\* unregistered team and a free time answered with a failure
C21_Witness ==
  \E p \in Procs, q \in Procs :
    /\ IsCreateCall(p) /\ ReachedService(p) /\ Conflicting(p) /\ ~Unregistered(p)
    /\ Answered(p) /\ err[p].kind = "SchedulingConflict"
    /\ IsCreateCall(q) /\ ReachedService(q) /\ Unregistered(q) /\ ~Conflicting(q)
    /\ Answered(q) /\ err[q] /= NoFailure /\ err[q].kind /= "StorageFailure"

(* ------------------------------ SocketService ------------------------- *)
\* the connection asked for the room less than the cooldown ago
Cooling(s, room) ==
  /\ Truthy(joinCooldowns[s][room])
  /\ now - joinCooldowns[s][room].value < cooldownMs

\* C22: a second subscribe request for the same topic less than the cooldown
\* (2000 ms) after the first is ignored: the connection's subscriptions are what
\* they were, with one subscription to the topic when it had not left, and the
\* recorded last-join time is not advanced.
C22_SecondJoinIgnored ==
  [][\A s \in Sockets, room \in Topics :
       (Join(s, room) /\ Cooling(s, room)) =>
         /\ rooms' = rooms
         /\ joinCooldowns' = joinCooldowns
         /\ room \in rooms[s] => Cardinality({r \in rooms'[s] : r = room}) = 1
    ]_vars

\* a join was stopped by the cooldown some time after the first: the connection
\* is subscribed, with the time of the first join on record
C22_Witness ==
  \E s \in Sockets, room \in Topics :
    /\ room \in refused[s] /\ room \in rooms[s]
    /\ joinCooldowns[s][room] = Millis(BootTime)
    /\ now > BootTime

\* the handshakes of origin o admitted at the instants in T
RECURSIVE AdmittedAt(_, _)
AdmittedAt(o, T) ==
  IF T = {} THEN 0
  ELSE LET t == CHOOSE u \in T : TRUE IN admitted[o][t] + AdmittedAt(o, T \ {t})
\* the 60 seconds that start at instant t
WindowFrom(t) == {u \in HandshakeTimes : t <= u /\ u < t + WindowMs}

\* C23: the admission quota is sliding: in every interval of 60 seconds,
\* whatever its start, at most 50 handshakes of one origin are admitted.
C23_SlidingQuota ==
  \A o \in Origins, t \in HandshakeTimes : AdmittedAt(o, WindowFrom(t)) <= Quota

\* the connection holds a subscription to the room
Subscribed(s, room) == sockets[s] = "connected" /\ room \in rooms[s]

\* C27: a notification published on the topic of a match or of a category is
\* delivered exactly to the connections subscribed to that topic when it is
\* published; a connection that has left, has disconnected, is subscribed to
\* other topics only or subscribes later never receives it.
C27_DeliveredToSubscribers ==
  [][IF published' /= published
     THEN LET n == published'[Len(published')] IN
          \A s \in Sockets :
            delivered'[s] = IF Subscribed(s, n.room) THEN Append(delivered[s], n)
                            ELSE delivered[s]
     ELSE delivered' = delivered
    ]_vars

\* a notification reached one subscriber; another connection, which subscribed
\* to the topic afterwards, has received nothing
C27_Witness ==
  \E s \in Sockets, t \in Sockets :
    /\ Len(published) = 1
    /\ delivered[s] = published
    /\ delivered[t] = <<>>
    /\ Subscribed(t, published[1].room)
    /\ Truthy(joinCooldowns[t][published[1].room])

(* ------------------------------ notifications ------------------------- *)
\* the commands that publish
Publishing(p) == cmd[p].op \in {"updateMatch", "addMatchEvent", "updateScore"} \cup LiveOps

\* C24: a notification is published only after the mutation that triggers it
\* has committed: no command publishes before its commit, and a command that
\* fails or rolls back publishes nothing.
C24_PublishAfterCommit ==
  [][\A p \in Procs :
       /\ emitted'[p] /= emitted[p] =>
            /\ committed[p] /\ Publishing(p)
            /\ emitted[p] = <<>> /\ emitted'[p] = NotificationOf(cmd[p])
       /\ ~committed'[p] => emitted'[p] = <<>>
       /\ (pc'[p] = "done" /\ err'[p] /= NoFailure) => emitted'[p] = <<>>
    ]_vars

\* one command has committed and published its notification, another was
\* rolled back at its commit and has published nothing
C24_Witness ==
  \E p \in Procs, q \in Procs :
    /\ Publishing(p) /\ committed[p] /\ pc[p] = "done" /\ err[p] = NoFailure
    /\ emitted[p] = NotificationOf(cmd[p])
    /\ Publishing(q) /\ pc[q] = "done" /\ err[q] = Failure("StorageFailure", "commit")
    /\ ~committed[q] /\ emitted[q] = <<>>

\* C25: every addMatchEvent whose transaction commits is followed by exactly
\* one match:event_added notification, also when the read of the match detail
\* between commit and publication fails; a committed event never goes
\* unannounced.
C25_CommittedEventAnnounced ==
  \A p \in Procs :
    (IsAdd(p) /\ committed[p] /\ pc[p] = "done") =>
      emitted[p] = <<"match:event_added">>

IsFinish(p) == cmd[p].op = "finishMatch"

\* C26: a successful finish publishes match:finished on the topic of the match
\* and then standings:updated on the topic of the match's category, both
\* carrying the recomputed standings; an unsuccessful finish publishes neither.
C26_FinishPublishesStandings ==
  \A p \in Procs :
    (IsFinish(p) /\ pc[p] = "done") =>
      IF committed[p]
      THEN /\ emitted[p] = <<"match:finished", "standings:updated">>
           /\ TopicOf(emitted[p][1]) = "match"
           /\ TopicOf(emitted[p][2]) = "category"
           /\ \A i \in 1..2 : "standings" \in Carries(emitted[p][i])
      ELSE emitted[p] = <<>>

(* ------------------------------ event kinds --------------------------- *)
IsCard(j) == j \in {KUNING, MERAH}
\* the event the request asks for, as a row of match_events
EventOf(p) ==
  [tag |-> "event", id_match |-> cmd[p].id, id_team |-> cmd[p].id_team,
   id_pemain |-> cmd[p].id_pemain, jenis |-> cmd[p].jenis]

\* C28: a successful addMatchEvent of a yellow or red card appends exactly one
\* event and leaves both scores and every player's goal counter unchanged.
C28_CardsLeaveScores ==
  [][\A p \in Procs :
       (AddCommits(p) /\ IsCard(cmd[p].jenis)) =>
         /\ match_events' = Append(match_events, EventOf(p))
         /\ matches' = matches
         /\ jumlah_gol' = jumlah_gol
    ]_vars

\* a yellow card is committed on a live match whose score is still 0-0
C28_Witness ==
  \E p \in Procs :
    /\ IsAdd(p) /\ cmd[p].jenis = KUNING /\ committed[p] /\ pc[p] = "done"
    /\ match_events = <<EventOf(p)>>
    /\ Scores(matches[cmd[p].id]) = <<0, 0>>
    /\ \A r \in pemain_event : jumlah_gol[r] = 0

\* the goals on record for a player in the category, over all registrations
RECURSIVE GoalsIn(_, _)
GoalsIn(counters, R) ==
  IF R = {} THEN 0
  ELSE LET r == CHOOSE x \in R : TRUE IN counters[r] + GoalsIn(counters, R \ {r})
CareerGoals(counters, pl) ==
  GoalsIn(counters, {r \in pemain_event : r.id_pemain = pl})

\* C29: a successful addMatchEvent of kind GOAL raises the scoring player's goal
\* counter for the category by exactly 1, once per goal also for a player with
\* registrations under more than one team, and leaves the other players'
\* counters alone; an OWN_GOAL leaves every counter unchanged.
C29_GoalCountedOnce ==
  [][\A p \in Procs :
       AddCommits(p) =>
         IF cmd[p].jenis = GOL
         THEN \A pl \in Players :
                CareerGoals(jumlah_gol', pl) =
                  CareerGoals(jumlah_gol, pl) + (IF pl = cmd[p].id_pemain THEN 1 ELSE 0)
         ELSE jumlah_gol' = jumlah_gol
    ]_vars

\* the player is registered under the team (or, for an own goal, under one
\* of the two teams of the match)
Registered(pl, t) == [id_pemain |-> pl, id_team |-> t] \in pemain_event
Eligible(p, row) ==
  IF cmd[p].jenis = BUNUH_DIRI
  THEN Registered(cmd[p].id_pemain, row.team_1) \/ Registered(cmd[p].id_pemain, row.team_2)
  ELSE Registered(cmd[p].id_pemain, cmd[p].id_team)

\* C30: the player is checked against the team of the event: a GOAL or a card
\* that names team T and a player not registered under T is rejected and
\* changes nothing, and a player of the opposing team is accepted for an own
\* goal only.
C30_PlayerCheckedAgainstTeam ==
  [][\A p \in Procs :
       (IsAdd(p) /\ Moves(p) /\ Truthy(matches[cmd[p].id])
          /\ ~Eligible(p, matches[cmd[p].id])) =>
         /\ pc'[p] /= "detail"
         /\ pc[p] = "validate" =>
              /\ pc'[p] = "done"
              /\ err'[p].kind \in {"MatchNotInProgress", "PlayerNotEligible",
                                   "StorageFailure"}
    ]_vars

(* ------------------------------ match day ----------------------------- *)
\* the time falls on the calendar day of match_day_start
OnMatchDay(waktu) == 0 <= waktu /\ waktu < MinutesPerDay

\* C31: all fixtures of one generateGroupMatches call are scheduled on the
\* calendar day of match_day_start, whatever the roster, the kickoff time and
\* the interval: the running kickoff time never leaves the match day.
C31_FixturesOnMatchDay ==
  \A p \in Procs :
    IsGroupCall(p) =>
      /\ \A i \in 1..Len(pend[p].fixtures) : OnMatchDay(pend[p].fixtures[i].waktu)
      /\ \A i \in 1..Len(created) :
           created[i].created_by = p => OnMatchDay(created[i].waktu)

(* ------------------------- brackets and matches ----------------------- *)
\* a bracket entry with a linked match (lines 735-745), as opposed to the
\* placeholders of lines 757-766
Linked(b) == "match_id" \in DOMAIN b
AWAITING == "menunggu"

RefersToMatches ==
  /\ \A i \in 1..Len(match_events) : Truthy(matches[match_events[i].id_match])
  /\ \A i \in 1..Len(brackets) :
       Linked(brackets[i]) => Truthy(matches[brackets[i].match_id])
\* a step removes neither a match that is in progress nor an event of its ledger
KeepsLiveMatch ==
  \A m \in MatchIds :
    Truthy(matches[m]) /\ inProgress(matches[m]) =>
      /\ Truthy(matches'[m])
      /\ SelectSeq(match_events', LAMBDA e : e.id_match = m)
           = SelectSeq(match_events, LAMBDA e : e.id_match = m)

\* C33: every event and every linked bracket entry refers to a stored match,
\* whatever deleteMatch calls have committed, and no deleteMatch removes a
\* match that is in progress or an event of its ledger.
C33_DeleteKeepsIntegrity ==
  [](RefersToMatches) /\ [][KeepsLiveMatch]_vars

(* ----------------------- the team of an event ------------------------- *)
TeamsOf(m) == {m.team_1, m.team_2}
\* every stored event names one of the two teams of its match
EventsNameMatchTeams ==
  \A i \in 1..Len(match_events) :
    Truthy(matches[match_events[i].id_match]) =>
      match_events[i].id_team \in TeamsOf(matches[match_events[i].id_match])
\* the call names a team that does not play in the match
ForeignTeam(p) ==
  /\ IsAdd(p) /\ Truthy(matches[cmd[p].id])
  /\ cmd[p].id_team \notin TeamsOf(matches[cmd[p].id])
\* a step of such a call stores no event and changes no score
ForeignTeamChangesNothing ==
  \A p \in Procs :
    ForeignTeam(p) /\ Moves(p) => matches' = matches /\ match_events' = match_events

\* C34: every stored event names one of the two teams of its match, and an
\* addMatchEvent call naming any other team stores no event and changes
\* neither score.
C34_EventTeamPlaysInMatch ==
  [](EventsNameMatchTeams) /\ [][ForeignTeamChangesNothing]_vars

(* --------------------------- double booking --------------------------- *)
\* the stored matches that are not cancelled
Playable(m) == Truthy(matches[m]) /\ matches[m].status /= CANCELLED

\* C35: no two distinct matches that are not cancelled have the same
\* scheduled time and a team in common, whatever updateMatch calls changing
\* the scheduled time have committed.
C35_NoTeamDoubleBooked ==
  \A m1, m2 \in MatchIds :
    m1 /= m2 /\ Playable(m1) /\ Playable(m2)
      /\ matches[m1].waktu = matches[m2].waktu
      => TeamsOf(matches[m1]) \cap TeamsOf(matches[m2]) = {}

(* ------------------------- join after leave --------------------------- *)
\* C37: a connection whose most recent request for a topic is a join is
\* subscribed to the topic: every join request leaves the connection
\* subscribed, also one that follows a join and a leave within the cooldown.
C37_JoinEndsSubscribed ==
  [][\A s \in Sockets, room \in Topics :
       Join(s, room) => Subscribed(s, room)'
    ]_vars

(* -------------------- the detail a notification carries --------------- *)
ScoreOf(row) == <<row.skor_1, row.skor_2>>
\* this step publishes the notification of request p
Publishes(p) == emitted[p] = <<>> /\ emitted'[p] /= <<>>
\* p and q add events to the same match, and q has published already
PublishedBefore(q, p) ==
  /\ q /= p /\ IsAdd(p) /\ IsAdd(q) /\ cmd[q].id = cmd[p].id
  /\ emitted[q] /= <<>>

\* C38: of two concurrent addMatchEvent calls on the same match, the one that
\* publishes its match:event_added notification last publishes a match detail
\* whose score is the committed score after both events.
C38_LastDetailIsCurrent ==
  [][\A p, q \in Procs :
       (PublishedBefore(q, p) /\ Publishes(p)) =>
         ScoreOf(detail[p]) = ScoreOf(matches[cmd[p].id])
    ]_vars
=============================================================================
